---- MODULE Spec2Model ----
(***************************************************************************)
(* Model of pkg/apis/nfd/v1alpha1/nodefeaturerule/expression.go: the       *)
(* evaluation of MatchExpressions and MatchExpressionSets against keys,    *)
(* values and instance features.                                           *)
(*                                                                         *)
(* Go strings are modelled as sequences of one-character strings, so that  *)
(* strconv.Atoi, the byte-wise string order used by sort.Slice and the     *)
(* regexp search are computed rather than assumed.  A Go map is a function *)
(* whose DOMAIN is the key set; `range` over a map visits the keys in an   *)
(* order the runtime chooses, modelled by a permutation of the key set     *)
(* chosen nondeterministically by the calling action.  An error value is   *)
(* a string naming the fmt.Errorf message, NoErr standing for nil.         *)
(***************************************************************************)
EXTENDS Integers, Sequences, FiniteSets, TLC

VARIABLES call, args, ret

vars == <<call, args, ret>>

(***************************************************************************)
(* Bounds of the model.                                                    *)
(***************************************************************************)
\* Longest operand list ("Value" field) of a single MatchExpression.
MaxOperands == 2
\* Most entries of a MatchExpressionSet.
MaxEntries == 2
\* Most instance features (attribute records) passed to one call.
MaxInstances == 2

(***************************************************************************)
(* Strings.                                                                *)
(***************************************************************************)
Digits == <<"0", "1", "2", "3", "4", "5", "6", "7", "8", "9">>

\* The characters of the model in ascending byte order.
Alphabet == <<"(", ")", "+", "-", ".",
              "0", "1", "2", "3", "4", "5", "6", "7", "8", "9",
              "a", "e", "f", "l", "r", "s", "t", "u", "x">>

CharCode(c) == CHOOSE i \in 1..Len(Alphabet) : Alphabet[i] = c

IsDigit(c) == \E i \in 1..Len(Digits) : Digits[i] = c

DigitVal(c) == (CHOOSE i \in 1..Len(Digits) : Digits[i] = c) - 1

\* Go's `<` on strings: byte-wise lexicographic, a proper prefix is smaller.
StrLess(a, b) ==
    \E i \in 1..(Len(a) + 1) :
        /\ \A j \in 1..(i - 1) : j <= Len(b) /\ a[j] = b[j]
        /\ \/ i = Len(a) + 1 /\ Len(b) >= i
           \/ i <= Len(a) /\ i <= Len(b) /\ CharCode(a[i]) < CharCode(b[i])

RECURSIVE DigitsValue(_, _)
DigitsValue(s, acc) ==
    IF s = <<>> THEN acc ELSE DigitsValue(Tail(s), 10 * acc + DigitVal(Head(s)))

\* strconv.Atoi: an optional sign followed by one or more decimal digits.
Atoi(s) ==
    LET signed == s # <<>> /\ Head(s) \in {"+", "-"}
        body   == IF signed THEN Tail(s) ELSE s
    IN  IF body = <<>> \/ \E i \in 1..Len(body) : ~IsDigit(body[i])
        THEN [ok |-> FALSE, n |-> 0]
        ELSE [ok |-> TRUE,
              n  |-> IF signed /\ Head(s) = "-"
                     THEN 0 - DigitsValue(body, 0)
                     ELSE DigitsValue(body, 0)]

\* regexp.Compile on the patterns of the model: literal letters and digits
\* and the wildcard "." compile; a lone parenthesis or repetition operator
\* does not.
RegexpCompileOk(p) ==
    \A i \in 1..Len(p) : p[i] \notin {"(", ")", "+"}

\* (*Regexp).MatchString: an unanchored search.
RegexpMatchString(p, v) ==
    \E i \in 0..(Len(v) - Len(p)) :
        \A j \in 1..Len(p) : p[j] = "." \/ p[j] = v[i + j]

STrue  == <<"t", "r", "u", "e">>
SFalse == <<"f", "a", "l", "s", "e">>

(***************************************************************************)
(* Errors.                                                                 *)
(***************************************************************************)
NoErr == "nil"
ErrInvalidOp      == "invalid Op"
ErrMustBeEmpty    == "'value' field must be empty"
ErrMustBeNonEmpty == "'value' field must be non-empty"
ErrBadRegexp      == "'value' field must only contain valid regexps"
ErrExactlyOne     == "'value' field must contain exactly one element"
ErrExactlyTwo     == "'value' field must contain exactly two elements"
ErrNotANumber     == "not a number"
ErrBounds         == "value[0] must be less than Value[1]"
ErrUnsupportedOp  == "unsupported Op"
ErrInvalidKeyOp   == "invalid Op when matching keys"

Result(match, err) == [match |-> match, err |-> err]

(***************************************************************************)
(* The operator catalog.                                                   *)
(***************************************************************************)
matchOps_extended ==
    {"Any", "In", "NotIn", "InRegexp", "Exists", "DoesNotExist",
     "Gt", "Lt", "GtLt", "IsTrue", "IsFalse", "Bogus"}

matchOps ==
    {"Any", "In", "NotIn", "InRegexp", "Exists", "DoesNotExist",
     "Gt", "Lt", "GtLt", "IsTrue", "IsFalse"}

(***************************************************************************)
(* evaluateMatchExpression, branch by branch.                              *)
(***************************************************************************)
\* case MatchIn
evalIn(m, value) ==
    IF Len(m.Value) = 0 THEN Result(FALSE, ErrMustBeNonEmpty)
    ELSE IF \E i \in 1..Len(m.Value) : value = m.Value[i]
         THEN Result(TRUE, NoErr)
         ELSE Result(FALSE, NoErr)

evalNotIn_firstOnly(m, value) ==
    IF Len(m.Value) = 0 THEN Result(FALSE, ErrMustBeNonEmpty)
    ELSE IF value = m.Value[1]
         THEN Result(FALSE, NoErr)
         ELSE Result(TRUE, NoErr)

\* case MatchNotIn
evalNotIn(m, value) ==
    IF Len(m.Value) = 0 THEN Result(FALSE, ErrMustBeNonEmpty)
    ELSE IF \E i \in 1..Len(m.Value) : value = m.Value[i]
         THEN Result(FALSE, NoErr)
         ELSE Result(TRUE, NoErr)

\* case MatchInRegexp: every operand is compiled before any is matched.
evalInRegexp(m, value) ==
    IF Len(m.Value) = 0 THEN Result(FALSE, ErrMustBeNonEmpty)
    ELSE IF \E i \in 1..Len(m.Value) : ~RegexpCompileOk(m.Value[i])
         THEN Result(FALSE, ErrBadRegexp)
         ELSE IF \E i \in 1..Len(m.Value) : RegexpMatchString(m.Value[i], value)
              THEN Result(TRUE, NoErr)
              ELSE Result(FALSE, NoErr)

\* case MatchGt, MatchLt
evalGtOrLt(m, value) ==
    IF Len(m.Value) # 1 THEN Result(FALSE, ErrExactlyOne)
    ELSE LET l == Atoi(value)
             r == Atoi(m.Value[1])
         IN  IF ~l.ok THEN Result(FALSE, ErrNotANumber)
             ELSE IF ~r.ok THEN Result(FALSE, ErrNotANumber)
             ELSE IF \/ l.n < r.n /\ m.Op = "Lt"
                     \/ l.n > r.n /\ m.Op = "Gt"
                  THEN Result(TRUE, NoErr)
                  ELSE Result(FALSE, NoErr)

evalGtLt_inclusive(m, value) ==
    IF Len(m.Value) # 2 THEN Result(FALSE, ErrExactlyTwo)
    ELSE LET v  == Atoi(value)
             l0 == Atoi(m.Value[1])
             l1 == Atoi(m.Value[2])
         IN  IF ~v.ok THEN Result(FALSE, ErrNotANumber)
             ELSE IF ~l0.ok \/ ~l1.ok THEN Result(FALSE, ErrNotANumber)
             ELSE IF l0.n >= l1.n THEN Result(FALSE, ErrBounds)
             ELSE Result(v.n >= l0.n /\ v.n < l1.n, NoErr)

\* case MatchGtLt
evalGtLt(m, value) ==
    IF Len(m.Value) # 2 THEN Result(FALSE, ErrExactlyTwo)
    ELSE LET v  == Atoi(value)
             l0 == Atoi(m.Value[1])
             l1 == Atoi(m.Value[2])
         IN  IF ~v.ok THEN Result(FALSE, ErrNotANumber)
             ELSE IF ~l0.ok \/ ~l1.ok THEN Result(FALSE, ErrNotANumber)
             ELSE IF l0.n >= l1.n THEN Result(FALSE, ErrBounds)
             ELSE Result(v.n > l0.n /\ v.n < l1.n, NoErr)

\* case MatchIsTrue, case MatchIsFalse
evalIsTrueOrFalse(m, value) ==
    IF Len(m.Value) # 0 THEN Result(FALSE, ErrMustBeEmpty)
    ELSE IF m.Op = "IsTrue" THEN Result(value = STrue, NoErr)
         ELSE Result(value = SFalse, NoErr)

\* The switch inside `if valid { ... }`.
evalValid(m, value) ==
    CASE m.Op = "In"                  -> evalIn(m, value)
      [] m.Op = "NotIn"               -> evalNotIn(m, value)
      [] m.Op = "InRegexp"            -> evalInRegexp(m, value)
      [] m.Op \in {"Gt", "Lt"}        -> evalGtOrLt(m, value)
      [] m.Op = "GtLt"                -> evalGtLt(m, value)
      [] m.Op \in {"IsTrue", "IsFalse"} -> evalIsTrueOrFalse(m, value)
      [] OTHER                        -> Result(FALSE, ErrUnsupportedOp)

\* The first switch: Any, Exists, DoesNotExist.
evalExistence(m, valid) ==
    IF Len(m.Value) # 0 THEN Result(FALSE, ErrMustBeEmpty)
    ELSE CASE m.Op = "Any"          -> Result(TRUE, NoErr)
           [] m.Op = "Exists"       -> Result(valid, NoErr)
           [] m.Op = "DoesNotExist" -> Result(~valid, NoErr)

evaluateMatchExpression_validateFirst(m, valid, value) ==
    IF m.Op \notin matchOps THEN Result(FALSE, ErrInvalidOp)
    ELSE IF m.Op \in {"Any", "Exists", "DoesNotExist"}
         THEN evalExistence(m, valid)
         ELSE LET r == evalValid(m, value)
              IN  IF r.err # NoErr \/ valid THEN r ELSE Result(FALSE, NoErr)

evaluateMatchExpression(m, valid, value) ==
    IF m.Op \notin matchOps THEN Result(FALSE, ErrInvalidOp)
    ELSE IF m.Op \in {"Any", "Exists", "DoesNotExist"}
         THEN evalExistence(m, valid)
         ELSE IF valid THEN evalValid(m, value)
              ELSE Result(FALSE, NoErr)

\* evaluateMatchExpressionKeys; the klog calls have no effect on the result.
evaluateMatchExpressionKeys(m, name, keys) ==
    LET ok == name \in keys
    IN  CASE m.Op = "Any"          -> Result(TRUE, NoErr)
          [] m.Op = "Exists"       -> Result(ok, NoErr)
          [] m.Op = "DoesNotExist" -> Result(~ok, NoErr)
          [] OTHER                 -> Result(FALSE, ErrInvalidKeyOp)

\* Go's `v, ok := values[name]`: the zero value "" when the key is absent.
MapIndex(values, name) ==
    IF name \in DOMAIN values THEN values[name] ELSE <<>>

evaluateMatchExpressionValues(m, name, values) ==
    evaluateMatchExpression(m, name \in DOMAIN values, MapIndex(values, name))

(***************************************************************************)
(* Matched elements and their order.                                       *)
(***************************************************************************)
\* The three-valued result of the MatchGet* and Match*Names functions; isNil
\* tells a nil slice from an empty one.
Triple(matched, isNil, list, err) ==
    [matched |-> matched, isNil |-> isNil, list |-> list, err |-> err]

RECURSIVE InsertByName(_, _)
InsertByName(sorted, e) ==
    IF sorted = <<>> THEN <<e>>
    ELSE IF StrLess(e.Name, Head(sorted).Name)
         THEN <<e>> \o sorted
         ELSE <<Head(sorted)>> \o InsertByName(Tail(sorted), e)

RECURSIVE SortLoop(_, _)
SortLoop(list, sorted) ==
    IF list = <<>> THEN sorted
    ELSE SortLoop(Tail(list), InsertByName(sorted, Head(list)))

SortByName_unsorted(list) == list

\* sort.Slice(ret, func(i, j int) bool { return ret[i]["Name"] < ret[j]["Name"] })
SortByName(list) == SortLoop(list, <<>>)

\* The orders in which `range` may visit the keys of a map with key set S.
RangeOrders(S) ==
    {o \in [1..Cardinality(S) -> S] : \A i, j \in DOMAIN o : o[i] = o[j] => i = j}

(***************************************************************************)
(* Name selectors.                                                         *)
(***************************************************************************)
RECURSIVE KeyNamesLoop(_, _, _, _)
KeyNamesLoop(m, order, i, acc) ==
    IF i > Len(order) THEN Triple(Len(acc) > 0, FALSE, SortByName(acc), NoErr)
    ELSE LET k == order[i]
             r == evaluateMatchExpression(m, TRUE, k)
         IN  IF r.err # NoErr THEN Triple(FALSE, TRUE, <<>>, r.err)
             ELSE IF r.match
                  THEN KeyNamesLoop(m, order, i + 1, Append(acc, [Name |-> k]))
                  ELSE KeyNamesLoop(m, order, i + 1, acc)

MatchKeyNames_alwaysTrue(m, keys, order) ==
    LET r == KeyNamesLoop(m, order, 1, <<>>)
    IN  [r EXCEPT !.matched = (r.err = NoErr)]

\* MatchKeyNames; order is the order in which `range keys` visits the keys.
MatchKeyNames(m, keys, order) == KeyNamesLoop(m, order, 1, <<>>)

RECURSIVE ValueNamesLoop(_, _, _, _, _)
ValueNamesLoop(m, values, order, i, acc) ==
    IF i > Len(order) THEN Triple(Len(acc) > 0, FALSE, SortByName(acc), NoErr)
    ELSE LET k == order[i]
             r == evaluateMatchExpression(m, TRUE, k)
         IN  IF r.err # NoErr THEN Triple(FALSE, TRUE, <<>>, r.err)
             ELSE IF r.match
                  THEN ValueNamesLoop(m, values, order, i + 1,
                                      Append(acc, [Name |-> k, Value |-> values[k]]))
                  ELSE ValueNamesLoop(m, values, order, i + 1, acc)

\* MatchValueNames; order is the order in which `range values` visits the keys.
MatchValueNames(m, values, order) == ValueNamesLoop(m, values, order, 1, <<>>)

(***************************************************************************)
(* Expression sets.                                                        *)
(***************************************************************************)
RECURSIVE GetKeysLoop(_, _, _, _, _)
GetKeysLoop(m, keys, order, i, acc) ==
    IF i > Len(order) THEN Triple(TRUE, FALSE, SortByName(acc), NoErr)
    ELSE LET n == order[i]
             r == evaluateMatchExpressionKeys(m[n], n, keys)
         IN  IF r.err # NoErr THEN Triple(FALSE, TRUE, <<>>, r.err)
             ELSE IF ~r.match THEN Triple(FALSE, TRUE, <<>>, NoErr)
             ELSE GetKeysLoop(m, keys, order, i + 1, Append(acc, [Name |-> n]))

\* MatchGetKeys; order is the order in which `range *m` visits the entries.
MatchGetKeys(m, keys, order) == GetKeysLoop(m, keys, order, 1, <<>>)

RECURSIVE GetValuesLoop(_, _, _, _, _)
GetValuesLoop(m, values, order, i, acc) ==
    IF i > Len(order) THEN Triple(TRUE, FALSE, SortByName(acc), NoErr)
    ELSE LET n == order[i]
             r == evaluateMatchExpressionValues(m[n], n, values)
         IN  IF r.err # NoErr THEN Triple(FALSE, TRUE, <<>>, r.err)
             ELSE IF ~r.match THEN Triple(FALSE, TRUE, <<>>, NoErr)
             ELSE GetValuesLoop(m, values, order, i + 1,
                                Append(acc, [Name |-> n, Value |-> MapIndex(values, n)]))

\* MatchGetValues; order is the order in which `range *m` visits the entries.
MatchGetValues(m, values, order) == GetValuesLoop(m, values, order, 1, <<>>)

MatchValues(m, values, order) ==
    LET r == MatchGetValues(m, values, order)
    IN  Result(r.matched, r.err)

(***************************************************************************)
(* Instance features.                                                      *)
(***************************************************************************)
InstResult(isNil, list, err) == [isNil |-> isNil, list |-> list, err |-> err]

RECURSIVE GetInstancesLoop_prepend(_, _, _, _, _)
GetInstancesLoop_prepend(m, instances, orders, i, acc) ==
    IF i > Len(instances) THEN InstResult(FALSE, acc, NoErr)
    ELSE LET r == MatchValues(m, instances[i], orders[i])
         IN  IF r.err # NoErr THEN InstResult(TRUE, <<>>, r.err)
             ELSE IF r.match
                  THEN GetInstancesLoop_prepend(m, instances, orders, i + 1,
                                                <<instances[i]>> \o acc)
                  ELSE GetInstancesLoop_prepend(m, instances, orders, i + 1, acc)

MatchGetInstances_prepend(m, instances, orders) ==
    GetInstancesLoop_prepend(m, instances, orders, 1, <<>>)

RECURSIVE GetInstancesLoop(_, _, _, _, _)
GetInstancesLoop(m, instances, orders, i, acc) ==
    IF i > Len(instances) THEN InstResult(FALSE, acc, NoErr)
    ELSE LET r == MatchValues(m, instances[i], orders[i])
         IN  IF r.err # NoErr THEN InstResult(TRUE, <<>>, r.err)
             ELSE IF r.match
                  THEN GetInstancesLoop(m, instances, orders, i + 1,
                                        Append(acc, instances[i]))
                  ELSE GetInstancesLoop(m, instances, orders, i + 1, acc)

\* MatchGetInstances; orders[i] is the order in which the evaluation of the
\* i-th instance visits the entries of the set.
MatchGetInstances(m, instances, orders) ==
    GetInstancesLoop(m, instances, orders, 1, <<>>)

\* MatchInstances: len(v) > 0, err; the length of a nil slice is 0.
MatchInstances(m, instances, orders) ==
    LET v == MatchGetInstances(m, instances, orders)
    IN  Result(Len(v.list) > 0, v.err)

(***************************************************************************)
(* Inputs.                                                                 *)
(***************************************************************************)
S1  == <<"1">>
S3  == <<"3">>
S5  == <<"5">>
S10 == <<"1", "0">>
Sa  == <<"a">>
S05 == <<"0", "5">>
SNeg1 == <<"-", "1">>
SDot == <<".">>
SParen == <<"(">>

SeqsUpTo(S, n) == UNION {[1..k -> S] : k \in 0..n}

MapsUpTo(K, V, n) ==
    UNION {[D -> V] : D \in {D \in SUBSET K : Cardinality(D) <= n}}

\* Every operator of the catalog and one outside it.
AllOps == matchOps \cup {"Bogus"}

\* Names of features and of set entries; "10" < "5" < "a" byte-wise.
Names == {S10, S5, Sa}

\* Candidate values handed to the scalar evaluator.
ValueStr == {S1, S3, S5, S05, S10, SNeg1, Sa, STrue, SFalse}

\* Operands: integers, a non-integer, a wildcard pattern and a string that is
\* no regexp.
OperandStr == {S1, S5, Sa, SDot, SParen}

Exprs == [Op : AllOps, Value : SeqsUpTo(OperandStr, MaxOperands)]

Expr(op, value) == [Op |-> op, Value |-> value]

\* Expressions of the sets: well-formed ones of each shape, and one of each
\* way of being malformed.
SetExprs ==
    {Expr("Any", <<>>), Expr("Exists", <<>>), Expr("DoesNotExist", <<>>),
     Expr("In", <<S3>>), Expr("Gt", <<S1>>), Expr("GtLt", <<S1, S5>>),
     Expr("In", <<>>), Expr("Exists", <<S1>>), Expr("Gt", <<Sa>>),
     Expr("GtLt", <<S5, S1>>), Expr("Bogus", <<>>)}

ExprSets == MapsUpTo(Names, SetExprs, MaxEntries)

\* Values of the features of a value map.
MapValueStr == {S3, Sa}

ValueMaps == MapsUpTo(Names, MapValueStr, Cardinality(Names))

KeySets == SUBSET Names

\* Instance features: attribute records over two names.
InstNames == {S5, Sa}

InstExprs ==
    {Expr("Exists", <<>>), Expr("In", <<S3>>), Expr("Gt", <<S1>>), Expr("In", <<>>)}

InstExprSets == MapsUpTo(InstNames, InstExprs, MaxEntries)

Attributes == MapsUpTo(InstNames, MapValueStr, Cardinality(InstNames))

InstanceSeqs == SeqsUpTo(Attributes, MaxInstances)

(***************************************************************************)
(* The calls.  The package holds no state between calls: a call is made    *)
(* from the idle state and its arguments and result are recorded until it  *)
(* returns.                                                                *)
(***************************************************************************)
Init ==
    /\ call = "idle"
    /\ args = <<>>
    /\ ret = <<>>

CallEvaluateMatchExpression ==
    /\ call = "idle"
    /\ \E m \in Exprs, valid \in BOOLEAN, value \in ValueStr :
        /\ args' = [m |-> m, valid |-> valid, value |-> value]
        /\ ret' = evaluateMatchExpression(m, valid, value)
    /\ call' = "evaluateMatchExpression"

CallEvaluateMatchExpressionKeys ==
    /\ call = "idle"
    /\ \E m \in Exprs, name \in Names, keys \in KeySets :
        /\ args' = [m |-> m, name |-> name, keys |-> keys]
        /\ ret' = evaluateMatchExpressionKeys(m, name, keys)
    /\ call' = "evaluateMatchExpressionKeys"

CallMatchKeyNames ==
    /\ call = "idle"
    /\ \E m \in Exprs, keys \in KeySets :
        \E order \in RangeOrders(keys) :
            /\ args' = [m |-> m, keys |-> keys]
            /\ ret' = MatchKeyNames(m, keys, order)
    /\ call' = "MatchKeyNames"

CallMatchValueNames ==
    /\ call = "idle"
    /\ \E m \in Exprs, values \in ValueMaps :
        \E order \in RangeOrders(DOMAIN values) :
            /\ args' = [m |-> m, values |-> values]
            /\ ret' = MatchValueNames(m, values, order)
    /\ call' = "MatchValueNames"

CallMatchGetKeys ==
    /\ call = "idle"
    /\ \E m \in ExprSets, keys \in KeySets :
        \E order \in RangeOrders(DOMAIN m) :
            /\ args' = [m |-> m, keys |-> keys]
            /\ ret' = MatchGetKeys(m, keys, order)
    /\ call' = "MatchGetKeys"

CallMatchGetValues ==
    /\ call = "idle"
    /\ \E m \in ExprSets, values \in ValueMaps :
        \E order \in RangeOrders(DOMAIN m) :
            /\ args' = [m |-> m, values |-> values]
            /\ ret' = MatchGetValues(m, values, order)
    /\ call' = "MatchGetValues"

CallMatchGetInstances ==
    /\ call = "idle"
    /\ \E m \in InstExprSets, instances \in InstanceSeqs :
        \E orders \in [1..Len(instances) -> RangeOrders(DOMAIN m)] :
            /\ args' = [m |-> m, instances |-> instances]
            /\ ret' = MatchGetInstances(m, instances, orders)
    /\ call' = "MatchGetInstances"

CallMatchInstances ==
    /\ call = "idle"
    /\ \E m \in InstExprSets, instances \in InstanceSeqs :
        \E orders \in [1..Len(instances) -> RangeOrders(DOMAIN m)] :
            /\ args' = [m |-> m, instances |-> instances]
            /\ ret' = MatchInstances(m, instances, orders)
    /\ call' = "MatchInstances"

Return ==
    /\ call # "idle"
    /\ call' = "idle"
    /\ args' = <<>>
    /\ ret' = <<>>

Next ==
    \/ CallEvaluateMatchExpression
    \/ CallEvaluateMatchExpressionKeys
    \/ CallMatchKeyNames
    \/ CallMatchValueNames
    \/ CallMatchGetKeys
    \/ CallMatchGetValues
    \/ CallMatchGetInstances
    \/ CallMatchInstances
    \/ Return

Spec == Init /\ [][Next]_vars

(***************************************************************************)
(* Properties.                                                             *)
(***************************************************************************)
\* The catalog as the specification lists it.
Catalog ==
    {"Any", "In", "NotIn", "InRegexp", "Exists", "DoesNotExist",
     "Gt", "Lt", "GtLt", "IsTrue", "IsFalse"}

ExistenceOps == {"Any", "Exists", "DoesNotExist"}

ValueOps == Catalog \ ExistenceOps

\* The operand count an operator requires.
ArityOk(e) ==
    CASE e.Op \in {"Any", "Exists", "DoesNotExist", "IsTrue", "IsFalse"} -> Len(e.Value) = 0
      [] e.Op \in {"In", "NotIn", "InRegexp"} -> Len(e.Value) >= 1
      [] e.Op \in {"Gt", "Lt"} -> Len(e.Value) = 1
      [] e.Op = "GtLt" -> Len(e.Value) = 2
      [] OTHER -> TRUE

\* A malformed expression: operator outside the catalog, wrong operand
\* count, non-integer operand of Gt/Lt/GtLt, or GtLt bounds not ascending.
Malformed(e) ==
    \/ e.Op \notin Catalog
    \/ ~ArityOk(e)
    \/ e.Op \in {"Gt", "Lt", "GtLt"} /\ \E i \in 1..Len(e.Value) : ~Atoi(e.Value[i]).ok
    \/ /\ e.Op = "GtLt"
       /\ Len(e.Value) = 2
       /\ Atoi(e.Value[1]).ok
       /\ Atoi(e.Value[2]).ok
       /\ Atoi(e.Value[1]).n >= Atoi(e.Value[2]).n

\* The names of a matched-element list ascend strictly.
Ascending(list) ==
    \A i, j \in 1..Len(list) : i < j => StrLess(list[i].Name, list[j].Name)

ListNames(list) == {list[i].Name : i \in 1..Len(list)}

\* C1: MatchGetValues is fail-closed: a set holding a malformed expression
\* makes the call return a non-nil error, whatever the values and whatever
\* the order in which the entries are visited.
C1_FailClosed ==
    (call = "MatchGetValues" /\ \E n \in DOMAIN args.m : Malformed(args.m[n]))
        => ret.err # NoErr

\* C2: MatchGetValues and MatchGetKeys are deterministic: every order of
\* visiting the entries of the set yields the outcome that was returned.
C2_Deterministic ==
    /\ call = "MatchGetValues" =>
          \A o \in RangeOrders(DOMAIN args.m) :
              MatchGetValues(args.m, args.values, o) = ret
    /\ call = "MatchGetKeys" =>
          \A o \in RangeOrders(DOMAIN args.m) :
              MatchGetKeys(args.m, args.keys, o) = ret

\* C3: with an absent candidate (valid = FALSE) every value-based operator
\* yields no match and no error, whatever the operands and the value.
C3_AbsentCandidate ==
    (call = "evaluateMatchExpression" /\ args.m.Op \in ValueOps /\ ~args.valid)
        => ret = Result(FALSE, NoErr)

C3_Witness ==
    /\ call = "evaluateMatchExpression"
    /\ args.m.Op = "GtLt"
    /\ Len(args.m.Value) = 1
    /\ ~args.valid
    /\ ret = Result(FALSE, NoErr)

\* C4: when MatchGetValues or MatchGetKeys reports a match, every entry of
\* the set matches and the list holds one element per entry (Name, and for
\* values Value = values[name]) in strictly ascending order of Name; the
\* empty set yields (true, empty non-nil list, nil).
C4_MatchedList ==
    /\ (call = "MatchGetValues" /\ ret.matched) =>
          /\ ret.err = NoErr /\ ~ret.isNil
          /\ \A n \in DOMAIN args.m :
                evaluateMatchExpressionValues(args.m[n], n, args.values)
                    = Result(TRUE, NoErr)
          /\ Len(ret.list) = Cardinality(DOMAIN args.m)
          /\ ListNames(ret.list) = DOMAIN args.m
          /\ \A i \in 1..Len(ret.list) :
                ret.list[i] = [Name  |-> ret.list[i].Name,
                               Value |-> MapIndex(args.values, ret.list[i].Name)]
          /\ Ascending(ret.list)
    /\ (call = "MatchGetKeys" /\ ret.matched) =>
          /\ ret.err = NoErr /\ ~ret.isNil
          /\ \A n \in DOMAIN args.m :
                evaluateMatchExpressionKeys(args.m[n], n, args.keys)
                    = Result(TRUE, NoErr)
          /\ Len(ret.list) = Cardinality(DOMAIN args.m)
          /\ ListNames(ret.list) = DOMAIN args.m
          /\ \A i \in 1..Len(ret.list) : ret.list[i] = [Name |-> ret.list[i].Name]
          /\ Ascending(ret.list)
    /\ (call \in {"MatchGetValues", "MatchGetKeys"} /\ DOMAIN args.m = {}) =>
          ret = Triple(TRUE, FALSE, <<>>, NoErr)

C4_Witness ==
    /\ call = "MatchGetValues"
    /\ ret.matched
    /\ Len(ret.list) = 2
    /\ ret.list[1].Value # ret.list[2].Value

\* An attribute record satisfies the set under MatchValues.
Satisfies(m, record) ==
    \E o \in RangeOrders(DOMAIN m) : MatchValues(m, record, o).match

Satisfying(m, instances) ==
    LET Test(record) == Satisfies(m, record)
    IN  SelectSeq(instances, Test)

\* C5: a MatchGetInstances call that returns no error returns the records
\* satisfying the set, in input order; MatchInstances then tells whether
\* there is one; an error comes with a nil list.
C5_Instances ==
    /\ (call = "MatchGetInstances" /\ ret.err = NoErr) =>
          /\ ~ret.isNil
          /\ ret.list = Satisfying(args.m, args.instances)
    /\ (call = "MatchGetInstances" /\ ret.err # NoErr) =>
          /\ ret.isNil
          /\ ret.list = <<>>
    /\ (call = "MatchInstances" /\ ret.err = NoErr) =>
          ret.match = (Satisfying(args.m, args.instances) # <<>>)

C5_Witness ==
    /\ call = "MatchGetInstances"
    /\ ret.err = NoErr
    /\ Len(args.instances) = 2
    /\ Len(ret.list) = 2
    /\ ret.list[1] # ret.list[2]

\* C6: for Any, Exists and DoesNotExist the key evaluator returns the match
\* result and the error/no-error outcome of the scalar evaluator called with
\* valid = (name in keys), so that both reject a non-empty operand list.
C6_KeysMirrorScalar ==
    (call = "evaluateMatchExpressionKeys" /\ args.m.Op \in ExistenceOps) =>
        LET s == evaluateMatchExpression(args.m, args.name \in args.keys, args.name)
        IN  /\ ret.match = s.match
            /\ (ret.err = NoErr) = (s.err = NoErr)
            /\ Len(args.m.Value) # 0 => ret.err # NoErr

\* The names the expression selects when evaluated against the name itself.
Selected(m, names) ==
    {k \in names : evaluateMatchExpression(m, TRUE, k) = Result(TRUE, NoErr)}

\* C7: MatchKeyNames and MatchValueNames, when they return no error, return
\* exactly the selected names, once each (with Value = values[k] for values),
\* in strictly ascending order, and true iff the list is non-empty; Exists
\* selects every name and DoesNotExist none.
C7_NameSelector ==
    /\ (call = "MatchKeyNames" /\ ret.err = NoErr) =>
          /\ ~ret.isNil
          /\ ListNames(ret.list) = Selected(args.m, args.keys)
          /\ Len(ret.list) = Cardinality(Selected(args.m, args.keys))
          /\ \A i \in 1..Len(ret.list) : ret.list[i] = [Name |-> ret.list[i].Name]
          /\ Ascending(ret.list)
          /\ ret.matched = (Len(ret.list) > 0)
          /\ args.m.Op = "Exists" => ListNames(ret.list) = args.keys
          /\ args.m.Op = "DoesNotExist" => ret.list = <<>>
    /\ (call = "MatchValueNames" /\ ret.err = NoErr) =>
          /\ ~ret.isNil
          /\ ListNames(ret.list) = Selected(args.m, DOMAIN args.values)
          /\ Len(ret.list) = Cardinality(Selected(args.m, DOMAIN args.values))
          /\ \A i \in 1..Len(ret.list) :
                ret.list[i] = [Name  |-> ret.list[i].Name,
                               Value |-> args.values[ret.list[i].Name]]
          /\ Ascending(ret.list)
          /\ ret.matched = (Len(ret.list) > 0)
          /\ args.m.Op = "Exists" => ListNames(ret.list) = DOMAIN args.values
          /\ args.m.Op = "DoesNotExist" => ret.list = <<>>

C7_Witness ==
    /\ call = "MatchKeyNames"
    /\ args.m = Expr("In", <<Sa, S5>>)
    /\ args.keys = Names
    /\ ret = Triple(TRUE, FALSE, <<[Name |-> S5], [Name |-> Sa]>>, NoErr)

\* C8: GtLt with a present candidate: an operand list of length other than
\* two is an error; with integer operands lo, hi and an integer candidate v,
\* lo >= hi is an error and otherwise the match is lo < v < hi.
C8_GtLt ==
    (call = "evaluateMatchExpression" /\ args.m.Op = "GtLt" /\ args.valid) =>
        /\ Len(args.m.Value) # 2 => (~ret.match /\ ret.err # NoErr)
        /\ (/\ Len(args.m.Value) = 2
            /\ Atoi(args.m.Value[1]).ok
            /\ Atoi(args.m.Value[2]).ok
            /\ Atoi(args.value).ok) =>
              LET lo == Atoi(args.m.Value[1]).n
                  hi == Atoi(args.m.Value[2]).n
                  v  == Atoi(args.value).n
              IN  IF lo >= hi
                  THEN ~ret.match /\ ret.err # NoErr
                  ELSE ret.err = NoErr /\ ret.match = (lo < v /\ v < hi)

C8_Witness ==
    /\ call = "evaluateMatchExpression"
    /\ args.m = Expr("GtLt", <<S1, S5>>)
    /\ args.valid
    /\ args.value = S1
    /\ ret = Result(FALSE, NoErr)

\* C9: with a present candidate and a non-empty operand list, In matches
\* iff the value equals some operand and NotIn is its negation, neither
\* with an error; with no operand both return an error.
C9_InNotIn ==
    (call = "evaluateMatchExpression" /\ args.m.Op \in {"In", "NotIn"} /\ args.valid) =>
        LET among == \E i \in 1..Len(args.m.Value) : args.m.Value[i] = args.value
        IN  IF Len(args.m.Value) = 0
            THEN ~ret.match /\ ret.err # NoErr
            ELSE /\ ret.err = NoErr
                 /\ args.m.Op = "In" => ret.match = among
                 /\ args.m.Op = "NotIn" =>
                       /\ ret.match = ~among
                       /\ ret.match =
                            ~evaluateMatchExpression([args.m EXCEPT !.Op = "In"],
                                                     TRUE, args.value).match

C9_Witness ==
    /\ call = "evaluateMatchExpression"
    /\ args.m.Op = "NotIn"
    /\ args.valid
    /\ Len(args.m.Value) = 2
    /\ args.m.Value[1] # args.value
    /\ args.m.Value[2] = args.value
    /\ ret = Result(FALSE, NoErr)

\* C10: an operator outside the catalog is rejected by evaluateMatchExpression
\* whatever valid, value and operands are, and evaluateMatchExpressionKeys
\* rejects every operator other than Any, Exists and DoesNotExist.
C10_InvalidOperator ==
    /\ (call = "evaluateMatchExpression" /\ args.m.Op \notin Catalog) =>
          (~ret.match /\ ret.err # NoErr)
    /\ (call = "evaluateMatchExpressionKeys" /\ args.m.Op \notin ExistenceOps) =>
          (~ret.match /\ ret.err # NoErr)

C10_Witness ==
    /\ call = "evaluateMatchExpression"
    /\ args.m.Op \notin Catalog
    /\ ~args.valid
    /\ Len(args.m.Value) = 0
    /\ ret = Result(FALSE, ErrInvalidOp)

====
